---- MODULE Spec2Model ----
(***************************************************************************)
(* Model of the release build script of hydrogen-web (scripts/build.mjs,   *)
(* kept as src/unnamed/part_000): the AssetMap registry, the cache-tier    *)
(* classifier buildServiceWorker, the release fingerprint and the build    *)
(* pipeline.  Paths and file contents are TLA+ strings, so that the        *)
(* string operations of the code (startsWith, substr, endsWith, the posix  *)
(* path functions) are computed as the code computes them.                 *)
(***************************************************************************)
EXTENDS Integers, Sequences, FiniteSets, TLC

VARIABLES
    maps,       \* the AssetMap objects: id -> [targetDir, assets]
    disk,       \* the file system: [files: full path -> content, dirs: the directories]
    hist,       \* per AssetMap: key -> how it was last registered and what the call returned
    ret,        \* the last AssetMap operation: its arguments, outcome and the state before it
    nOps,       \* per AssetMap: number of method calls made on it so far
    sw,         \* per AssetMap: the fingerprint and the cache manifest built from it
    proc        \* the build process: its position in build(), console and exit code

vars == <<maps, disk, hist, ret, nOps, sw, proc>>

-----------------------------------------------------------------------------
(* Bounds of the model *)

\* number of AssetMap operations in one run of the registry harness
MaxOps == 3

-----------------------------------------------------------------------------
(* JavaScript strings *)

Ch(s, i) == SubSeq(s, i, i)

\* String.prototype.startsWith
startsWith(s, prefix) ==
    /\ Len(prefix) <= Len(s)
    /\ SubSeq(s, 1, Len(prefix)) = prefix

\* String.prototype.endsWith
endsWith(s, suffix) ==
    /\ Len(suffix) <= Len(s)
    /\ SubSeq(s, Len(s) - Len(suffix) + 1, Len(s)) = suffix

\* String.prototype.substr(start) with start >= 0 (start is 0-based)
substr(s, start) ==
    IF start >= Len(s) THEN "" ELSE SubSeq(s, start + 1, Len(s))

\* The characters that occur in paths and contents, in UTF-16 code unit order
\* (the order Array.prototype.sort compares strings by).
Alphabet == ",-./0123456789_abcdefghijklmnopqrstuvwxyz"

\* the position of c in Alphabet from position i on, or 0
CodeFrom(c, i) ==
    IF \E j \in i..Len(Alphabet) : Ch(Alphabet, j) = c
    THEN CHOOSE j \in i..Len(Alphabet) : Ch(Alphabet, j) = c
    ELSE 0

\* position of a character in the code unit order
Code(c) == CodeFrom(c, 1)

\* a < b decided from position i on: by the first position where they
\* differ, or by their lengths when one is a prefix of the other
StrLessFrom(a, b, i) ==
    LET last == IF Len(a) < Len(b) THEN Len(a) ELSE Len(b)
        differ(j) == Ch(a, j) # Ch(b, j)
    IN  IF \E j \in i..last : differ(j)
        THEN LET d == CHOOSE j \in i..last :
                        differ(j) /\ \A k \in i..(j - 1) : ~differ(k)
             IN  Code(Ch(a, d)) < Code(Ch(b, d))
        ELSE Len(a) < Len(b)

\* a < b for JavaScript strings
StrLess(a, b) == StrLessFrom(a, b, 1)

RECURSIVE Insert(_, _)
Insert(sorted, x) ==
    IF sorted = <<>> THEN <<x>>
    ELSE IF StrLess(x, Head(sorted)) THEN <<x>> \o sorted
    ELSE <<Head(sorted)>> \o Insert(Tail(sorted), x)

RECURSIVE ArraySort(_)
\* Array.prototype.sort() without a comparator, on an array of strings
ArraySort(arr) ==
    IF arr = <<>> THEN <<>>
    ELSE Insert(ArraySort(SubSeq(arr, 1, Len(arr) - 1)), arr[Len(arr)])

RECURSIVE ArrayJoin(_, _)
\* Array.prototype.join(sep)
ArrayJoin(arr, sep) ==
    IF arr = <<>> THEN ""
    ELSE IF Len(arr) = 1 THEN arr[1]
    ELSE arr[1] \o sep \o ArrayJoin(Tail(arr), sep)

-----------------------------------------------------------------------------
(* The posix functions of Node's path module *)

\* the segments of a path between its slashes (empty segments included)
Segments(s) ==
    LET slashes == {i \in 1..Len(s) : Ch(s, i) = "/"}
        n == Cardinality(slashes)
        \* the position of the k-th slash; 0 before the first, past the end
        \* after the last
        slash(k) == IF k = 0 THEN 0
                    ELSE IF k > n THEN Len(s) + 1
                    ELSE CHOOSE i \in slashes :
                            Cardinality({j \in slashes : j < i}) = k - 1
    IN  [k \in 1..(n + 1) |-> SubSeq(s, slash(k - 1) + 1, slash(k) - 1)]

RECURSIVE NormalizeSegs(_, _, _)
\* normalizeString: drops empty and "." segments, resolves ".." segments
NormalizeSegs(segs, allowAboveRoot, res) ==
    IF segs = <<>> THEN res
    ELSE LET seg == Head(segs)
             rest == Tail(segs)
         IN  IF seg = "" \/ seg = "." THEN NormalizeSegs(rest, allowAboveRoot, res)
             ELSE IF seg = ".."
                  THEN IF res # <<>> /\ res[Len(res)] # ".."
                       THEN NormalizeSegs(rest, allowAboveRoot, SubSeq(res, 1, Len(res) - 1))
                       ELSE IF allowAboveRoot
                            THEN NormalizeSegs(rest, allowAboveRoot, Append(res, ".."))
                            ELSE NormalizeSegs(rest, allowAboveRoot, res)
                  ELSE NormalizeSegs(rest, allowAboveRoot, Append(res, seg))

\* path.isAbsolute
isAbsolute(p) == Len(p) > 0 /\ Ch(p, 1) = "/"

\* path.normalize
normalize(p) ==
    IF Len(p) = 0 THEN "."
    ELSE LET abs == isAbsolute(p)
             trailing == Ch(p, Len(p)) = "/"
             body == ArrayJoin(NormalizeSegs(Segments(p), ~abs, <<>>), "/")
         IN  IF Len(body) = 0
             THEN (IF abs THEN "/" ELSE IF trailing THEN "./" ELSE ".")
             ELSE (IF abs THEN "/" ELSE "") \o body \o (IF trailing THEN "/" ELSE "")

\* path.join of two arguments
join(a, b) ==
    IF Len(a) = 0 /\ Len(b) = 0 THEN "."
    ELSE IF Len(a) = 0 THEN normalize(b)
    ELSE IF Len(b) = 0 THEN normalize(a)
    ELSE normalize(a \o "/" \o b)

\* path.resolve of one absolute argument: normalized, no trailing slash
pathResolve(p) ==
    "/" \o ArrayJoin(NormalizeSegs(Segments(p), FALSE, <<>>), "/")

\* 1-based index of the last character of p[1..i] that is no slash, or 0
LastNonSlash(p, i) ==
    i - (CHOOSE t \in 0..i :
            /\ t = i \/ Ch(p, i - t) # "/"
            /\ \A k \in 0..(t - 1) : Ch(p, i - k) = "/")

\* 1-based index of the last slash of p[1..i], or 0
LastSlash(p, i) ==
    i - (CHOOSE t \in 0..i :
            /\ t = i \/ Ch(p, i - t) = "/"
            /\ \A k \in 0..(t - 1) : Ch(p, i - k) # "/")

\* path.dirname
dirname(p) ==
    IF Len(p) = 0 THEN "."
    ELSE LET hasRoot == Ch(p, 1) = "/"
             e == LastNonSlash(p, Len(p))
             end == IF e < 2 THEN 0 ELSE LastSlash(p, e - 1)
         IN  IF end < 2 THEN (IF hasRoot THEN "/" ELSE ".")
             ELSE IF hasRoot /\ end = 2 THEN "//"
             ELSE SubSeq(p, 1, end - 1)

\* the last segment of a path, trailing slashes ignored
lastSegment(p) ==
    LET e == LastNonSlash(p, Len(p))
    IN  IF e = 0 THEN "" ELSE SubSeq(p, LastSlash(p, e) + 1, e)

\* 1-based index of the last dot of s[1..i], or 0
LastDot(s, i) ==
    i - (CHOOSE t \in 0..i :
            /\ t = i \/ Ch(s, i - t) = "."
            /\ \A k \in 0..(t - 1) : Ch(s, i - k) # ".")

\* path.extname
extname(p) ==
    LET base == lastSegment(p)
        dot == LastDot(base, Len(base))
    IN  IF dot <= 1 \/ base = ".." THEN "" ELSE SubSeq(base, dot, Len(base))

\* path.basename(p, ext)
basename(p, ext) ==
    LET base == lastSegment(p)
    IN  IF Len(ext) > 0 /\ ext # base /\ endsWith(base, ext)
        THEN SubSeq(base, 1, Len(base) - Len(ext))
        ELSE base

-----------------------------------------------------------------------------
(* contentHash *)

Digits == "0123456789"

TwoDigits(n) == Ch(Digits, (n \div 10) + 1) \o Ch(Digits, (n % 10) + 1)

RECURSIVE DigestFrom(_, _, _)
\* the digits for the characters lo..hi of str, in order
DigestFrom(str, lo, hi) ==
    IF lo > hi THEN ""
    ELSE IF lo = hi THEN TwoDigits(Code(Ch(str, lo)))
    ELSE DigestFrom(str, lo, (lo + hi) \div 2)
            \o DigestFrom(str, ((lo + hi) \div 2) + 1, hi)

\* The xxhash32 digest of a string, as the decimal numeral that the template
\* strings of the code turn it into.  The digest is abstracted as an
\* order-sensitive, collision-free numeral: two decimal digits per character.
contentHash(str) == DigestFrom(str, 1, Len(str))

-----------------------------------------------------------------------------
(* JavaScript Map, kept as the sequence of its entries in insertion order *)

mapHas(entries, key) == \E i \in 1..Len(entries) : entries[i][1] = key

\* Map.prototype.get: found is FALSE where the code gets undefined
mapGet(entries, key) ==
    IF mapHas(entries, key)
    THEN [found |-> TRUE,
          value |-> entries[CHOOSE i \in 1..Len(entries) : entries[i][1] = key][2]]
    ELSE [found |-> FALSE, value |-> ""]

\* Map.prototype.set: an existing key keeps its place, a new key goes last
mapSet(entries, key, value) ==
    IF mapHas(entries, key)
    THEN [i \in 1..Len(entries) |->
            IF entries[i][1] = key THEN <<key, value>> ELSE entries[i]]
    ELSE Append(entries, <<key, value>>)

mapKeys(entries) == {entries[i][1] : i \in 1..Len(entries)}

\* !result of the code: undefined and the empty string are falsy
falsy(r) == ~r.found \/ r.value = ""

-----------------------------------------------------------------------------
(* class AssetMap *)

\* constructor(targetDir)
AssetMap(targetDir) == [targetDir |-> pathResolve(targetDir), assets |-> <<>>]

\* _toRelPath(resourcePath)
toRelPath(self, resourcePath) ==
    IF isAbsolute(resourcePath)
    THEN IF ~startsWith(resourcePath, self.targetDir)
         THEN [threw |-> TRUE, relPath |-> ""]
         ELSE [threw |-> FALSE,
               relPath |-> substr(resourcePath, Len(self.targetDir) + 1)]
    ELSE [threw |-> FALSE, relPath |-> resourcePath]

\* _create with the entry registered under the path as given, not under the
\* path relative to the root
create_keyNotRelative(self, resourcePath, content) ==
    LET rel == toRelPath(self, resourcePath)
        relPath == rel.relPath
        dstRelPath == join(dirname(relPath),
                           basename(relPath, extname(relPath)) \o "-"
                             \o contentHash(content) \o extname(relPath))
    IN  IF rel.threw
        THEN [threw |-> TRUE, relPath |-> "", dstRelPath |-> "", assets |-> self.assets]
        ELSE [threw |-> FALSE, relPath |-> relPath, dstRelPath |-> dstRelPath,
              assets |-> mapSet(self.assets, resourcePath, dstRelPath)]

\* _create(resourcePath, content)
create(self, resourcePath, content) ==
    LET rel == toRelPath(self, resourcePath)
        relPath == rel.relPath
        hash == contentHash(content)
        dir == dirname(relPath)
        ext == extname(relPath)
        base == basename(relPath, ext)
        dstRelPath == join(dir, base \o "-" \o hash \o ext)
    IN  IF rel.threw
        THEN [threw |-> TRUE, relPath |-> "", dstRelPath |-> "", assets |-> self.assets]
        ELSE [threw |-> FALSE, relPath |-> relPath, dstRelPath |-> dstRelPath,
              assets |-> mapSet(self.assets, relPath, dstRelPath)]

\* resolve that returns what Map.get gave instead of throwing
resolve_noThrow(self, resourcePath) ==
    LET rel == toRelPath(self, resourcePath)
        result == mapGet(self.assets, rel.relPath)
    IN  IF rel.threw THEN [threw |-> TRUE, error |-> "not within target dir", value |-> ""]
        ELSE [threw |-> FALSE, error |-> "", value |-> result.value]

\* resolve(resourcePath): what the call does, as a value
resolve(self, resourcePath) ==
    LET rel == toRelPath(self, resourcePath)
        result == mapGet(self.assets, rel.relPath)
    IN  IF rel.threw THEN [threw |-> TRUE, error |-> "not within target dir", value |-> ""]
        ELSE IF falsy(result) THEN [threw |-> TRUE, error |-> "unknown path", value |-> ""]
        ELSE [threw |-> FALSE, error |-> "", value |-> result.value]

\* isUnhashed that reports every registered path as unhashed
isUnhashed_anyRegistered(self, relPath) ==
    LET resolvedPath == mapGet(self.assets, relPath)
    IN  IF falsy(resolvedPath) THEN [threw |-> TRUE, error |-> "Unknown asset", flag |-> FALSE]
        ELSE [threw |-> FALSE, error |-> "", flag |-> TRUE]

\* isUnhashed(relPath)
isUnhashed(self, relPath) ==
    LET resolvedPath == mapGet(self.assets, relPath)
    IN  IF falsy(resolvedPath) THEN [threw |-> TRUE, error |-> "Unknown asset", flag |-> FALSE]
        ELSE [threw |-> FALSE, error |-> "", flag |-> (relPath = resolvedPath.value)]

\* has(relPath)
has(self, relPath) == mapHas(self.assets, relPath)

\* get size
size(self) == Len(self.assets)

RECURSIVE mergeEntries(_, _, _)
\* the loop of addSubMap over the entries of the sub-registry
mergeEntries(assets, relSubRoot, subEntries) ==
    IF subEntries = <<>> THEN assets
    ELSE mergeEntries(
            mapSet(assets, join(relSubRoot, Head(subEntries)[1]),
                           join(relSubRoot, Head(subEntries)[2])),
            relSubRoot, Tail(subEntries))

\* addSubMap(assetMap): what the call does, as a value
addSubMapResult(self, assetMap) ==
    IF ~startsWith(assetMap.targetDir, self.targetDir)
    THEN [threw |-> TRUE, assets |-> self.assets]
    ELSE [threw |-> FALSE,
          assets |-> mergeEntries(self.assets,
                                  substr(assetMap.targetDir, Len(self.targetDir) + 1),
                                  assetMap.assets)]

EmptyFn == [k \in {} |-> k]

Put(f, k, v) == [x \in (DOMAIN f) \cup {k} |-> IF x = k THEN v ELSE f[x]]

\* fs.writeFile(fullPath, content): rejects with ENOENT when the directory of
\* the file does not exist
writeFile(fs, fullPath, content) ==
    IF dirname(fullPath) \in fs.dirs
    THEN [threw |-> FALSE, fs |-> [fs EXCEPT !.files = Put(@, fullPath, content)]]
    ELSE [threw |-> TRUE, fs |-> fs]

\* async write(resourcePath, content): what the call does, as a value
writeResult(self, fs, resourcePath, content) ==
    LET c == create(self, resourcePath, content)
        relPath == c.dstRelPath
        fullPath == join(self.targetDir, relPath)
        w == writeFile(fs, fullPath, content)
    IN  IF c.threw
        THEN [threw |-> TRUE, error |-> "not within target dir", value |-> "",
              key |-> "", assets |-> self.assets, fs |-> fs]
        ELSE IF w.threw
        THEN [threw |-> TRUE, error |-> "ENOENT", value |-> "",
              key |-> c.relPath, assets |-> c.assets, fs |-> fs]
        ELSE [threw |-> FALSE, error |-> "", value |-> relPath,
              key |-> c.relPath, assets |-> c.assets, fs |-> w.fs]

\* async writeUnhashed(resourcePath, content): what the call does, as a value
writeUnhashedResult(self, fs, resourcePath, content) ==
    LET rel == toRelPath(self, resourcePath)
        relPath == rel.relPath
        fullPath == join(self.targetDir, relPath)
        w == writeFile(fs, fullPath, content)
    IN  IF rel.threw
        THEN [threw |-> TRUE, error |-> "not within target dir", value |-> "",
              key |-> "", assets |-> self.assets, fs |-> fs]
        ELSE IF w.threw
        THEN [threw |-> TRUE, error |-> "ENOENT", value |-> "",
              key |-> relPath, assets |-> mapSet(self.assets, relPath, relPath), fs |-> fs]
        ELSE [threw |-> FALSE, error |-> "", value |-> relPath,
              key |-> relPath, assets |-> mapSet(self.assets, relPath, relPath),
              fs |-> w.fs]

-----------------------------------------------------------------------------
(* The registry harness: two AssetMap objects, the registry `assets` of a    *)
(* build and another registry `other` (a sub-registry as copyFolder returns  *)
(* it), driven by arbitrary calls of their methods.                          *)

MapIds == {"assets", "other"}

\* the output directory of build, path.join(projectDir, "target/")
TargetDir == "/t/"

\* directories the other registry is constructed with: the output directory
\* itself, a subdirectory, a sibling whose name begins with the output
\* directory's, a stranger
OtherDirs == {"/t", "/t/d/", "/t2", "/o"}

\* resource paths handed to the methods: a relative one, and absolute ones
\* inside and outside the roots
ResourcePaths == {"a.js", "/t/d/a.js", "/t2/a.js", "/t/d2/a.js", "/o/a.js"}

Contents == {"x", "y"}

\* the directories that exist while the harness runs (/t/d2 does not)
HarnessDirs == {"/", "/t", "/t/d", "/t2", "/o"}

Ret(op, id, arg, threw, error, value, flag, pre) ==
    [op |-> op, id |-> id, arg |-> arg, threw |-> threw, error |-> error,
     value |-> value, flag |-> flag, pre |-> pre]

NoSw == [done |-> FALSE, entries |-> <<>>, globalHash |-> "",
         unhashedPreCachedAssets |-> <<>>, hashedPreCachedAssets |-> <<>>,
         hashedCachedOnRequestAssets |-> <<>>]

NoProc == [pc |-> "idle"]

Init ==
    /\ \E d \in OtherDirs :
         maps = [id \in MapIds |->
                    IF id = "assets" THEN AssetMap(TargetDir) ELSE AssetMap(d)]
    /\ disk = [files |-> EmptyFn, dirs |-> HarnessDirs]
    /\ hist = [id \in MapIds |-> EmptyFn]
    /\ ret = Ret("none", "assets", "", FALSE, "", "", FALSE, maps)
    /\ nOps = [id \in MapIds |-> 0]
    /\ sw = [id \in MapIds |-> NoSw]
    /\ proc = NoProc

\* a call of write(resourcePath, content) on the AssetMap id
write(id, resourcePath, content) ==
    \E r \in {writeResult(maps[id], disk, resourcePath, content)} :
        /\ maps' = [maps EXCEPT ![id].assets = r.assets]
        /\ disk' = r.fs
        /\ hist' = IF r.key = "" /\ r.threw THEN hist
                   ELSE [hist EXCEPT ![id] =
                           Put(@, r.key, [by |-> IF r.threw THEN "rejected" ELSE "write",
                                          arg |-> resourcePath, returned |-> r.value])]
        /\ ret' = Ret("write", id, resourcePath, r.threw, r.error, r.value, FALSE, maps)
        /\ nOps' = [nOps EXCEPT ![id] = @ + 1]
        /\ UNCHANGED <<sw, proc>>

\* a call of writeUnhashed(resourcePath, content) on the AssetMap id
writeUnhashed(id, resourcePath, content) ==
    \E r \in {writeUnhashedResult(maps[id], disk, resourcePath, content)} :
        /\ maps' = [maps EXCEPT ![id].assets = r.assets]
        /\ disk' = r.fs
        /\ hist' = IF r.key = "" /\ r.threw THEN hist
                   ELSE [hist EXCEPT ![id] =
                           Put(@, r.key, [by |-> IF r.threw THEN "rejected"
                                                 ELSE "writeUnhashed",
                                          arg |-> resourcePath, returned |-> r.value])]
        /\ ret' = Ret("writeUnhashed", id, resourcePath, r.threw, r.error, r.value,
                      FALSE, maps)
        /\ nOps' = [nOps EXCEPT ![id] = @ + 1]
        /\ UNCHANGED <<sw, proc>>

\* a call of resolve(resourcePath) on the AssetMap id
Resolve(id, resourcePath) ==
    \E r \in {resolve(maps[id], resourcePath)} :
        /\ ret' = Ret("resolve", id, resourcePath, r.threw, r.error, r.value, FALSE, maps)
        /\ nOps' = [nOps EXCEPT ![id] = @ + 1]
        /\ UNCHANGED <<maps, disk, hist, sw, proc>>

\* a call of isUnhashed(relPath) on the AssetMap id
IsUnhashed(id, relPath) ==
    \E r \in {isUnhashed(maps[id], relPath)} :
        /\ ret' = Ret("isUnhashed", id, relPath, r.threw, r.error, "", r.flag, maps)
        /\ nOps' = [nOps EXCEPT ![id] = @ + 1]
        /\ UNCHANGED <<maps, disk, hist, sw, proc>>

\* a call of addSubMap(assetMap) on the AssetMap id, with the AssetMap other
addSubMap(id, other) ==
    LET self == maps[id]
        assetMap == maps[other]
        relSubRoot == substr(assetMap.targetDir, Len(self.targetDir) + 1)
    IN  \E r \in {addSubMapResult(self, assetMap)} :
        \E set \in {IF r.threw THEN {}
                    ELSE {join(relSubRoot, k) : k \in mapKeys(assetMap.assets)}} :
        /\ id # other
        /\ maps' = [maps EXCEPT ![id].assets = r.assets]
        /\ hist' = [hist EXCEPT ![id] =
                      [k \in (DOMAIN @) \cup set |->
                         IF k \in set
                         THEN [by |-> "addSubMap", arg |-> other, returned |-> ""]
                         ELSE @[k]]]
        /\ ret' = Ret("addSubMap", id, other, r.threw,
                      IF r.threw THEN "map directory doesn't start with this directory"
                      ELSE "", "", FALSE, maps)
        /\ nOps' = [nOps EXCEPT ![id] = @ + 1]
        /\ UNCHANGED <<disk, sw, proc>>

\* the harness makes at most MaxOps calls
OpsLeft == nOps["assets"] + nOps["other"] < MaxOps

RegWrite ==
    \E id \in MapIds, p \in ResourcePaths, c \in Contents :
        OpsLeft /\ write(id, p, c)

RegWriteUnhashed ==
    \E id \in MapIds, p \in ResourcePaths, c \in Contents :
        OpsLeft /\ writeUnhashed(id, p, c)

RegResolve ==
    \E id \in MapIds, p \in ResourcePaths : OpsLeft /\ Resolve(id, p)

RegIsUnhashed ==
    \E id \in MapIds, p \in ResourcePaths : OpsLeft /\ IsUnhashed(id, p)

RegAddSubMap ==
    \E id \in MapIds, other \in MapIds : OpsLeft /\ addSubMap(id, other)

Next ==
    \/ RegWrite
    \/ RegWriteUnhashed
    \/ RegResolve
    \/ RegIsUnhashed
    \/ RegAddSubMap

Spec == Init /\ [][Next]_vars

-----------------------------------------------------------------------------
(* Claims about the registry, checked under Spec *)

\* the entries of an AssetMap as a set of (key, value) pairs
Entries(self) == {self.assets[i] : i \in 1..Len(self.assets)}

\* dir is the directory root itself or lies below it
AtOrBelow(dir, root) == dir = root \/ startsWith(dir, root \o "/")

\* C1: after write(p, c) returned h, resolve(p) returns exactly h for as long
\* as no later write, writeUnhashed or addSubMap registers the same key again.
C1_WriteResolveRoundTrip ==
    \A id \in MapIds : \A k \in DOMAIN hist[id] :
        hist[id][k].by = "write" =>
            LET r == resolve(maps[id], hist[id][k].arg)
            IN  ~r.threw /\ r.value = hist[id][k].returned

\* C1, its case: a path written through an absolute path under the root is
\* still registered after a successful addSubMap into the same registry.
C1_Witness ==
    /\ ret.op = "addSubMap" /\ ~ret.threw
    /\ Len(maps[ret.arg].assets) > 0
    /\ \E k \in DOMAIN hist[ret.id] :
          hist[ret.id][k].by = "write" /\ isAbsolute(hist[ret.id][k].arg)

\* C2: after writeUnhashed(p, x) with a relative p the call returned p,
\* resolve(p) returns p and isUnhashed(p) is true; for a key registered by
\* write, isUnhashed is false.
C2_UnhashedIdentity ==
    \A id \in MapIds : \A k \in DOMAIN hist[id] :
        LET h == hist[id][k]
        IN  /\ (h.by = "writeUnhashed" /\ ~isAbsolute(h.arg)) =>
                  /\ h.returned = h.arg
                  /\ resolve(maps[id], h.arg) =
                        [threw |-> FALSE, error |-> "", value |-> h.arg]
                  /\ isUnhashed(maps[id], h.arg) =
                        [threw |-> FALSE, error |-> "", flag |-> TRUE]
            /\ h.by = "write" =>
                  isUnhashed(maps[id], k) =
                        [threw |-> FALSE, error |-> "", flag |-> FALSE]

\* C2, its case: one registry holds an unhashed and a hashed entry.
C2_Witness ==
    \E id \in MapIds : \E k1, k2 \in DOMAIN hist[id] :
        /\ hist[id][k1].by = "writeUnhashed" /\ ~isAbsolute(hist[id][k1].arg)
        /\ hist[id][k2].by = "write"

\* C3: addSubMap of a sub-registry rooted at <root>/d maps d/k to d/v for
\* every entry (k, v) of the sub-registry, leaves the sub-registry unchanged
\* and leaves every other entry of the parent unchanged.
C3_AddSubMapRekeys ==
    (ret.op = "addSubMap" /\ AtOrBelow(ret.pre[ret.arg].targetDir,
                                        ret.pre[ret.id].targetDir)) =>
        LET parent == maps[ret.id]
            before == ret.pre[ret.id]
            sub == ret.pre[ret.arg]
            d == substr(sub.targetDir, Len(before.targetDir) + 1)
            rekeyed == {join(d, e[1]) : e \in Entries(sub)}
        IN  /\ ~ret.threw
            /\ \A e \in Entries(sub) : <<join(d, e[1]), join(d, e[2])>> \in Entries(parent)
            /\ maps[ret.arg] = sub
            /\ \A e \in Entries(before) : e[1] \notin rekeyed => e \in Entries(parent)
            /\ \A e \in Entries(parent) : e[1] \notin rekeyed => e \in Entries(before)

\* C3 without the sub-registry keys that _toRelPath lets through for a path
\* outside the root: every key of the sub-registry is a relative path.
C3_AddSubMapRekeysRelativeKeys ==
    (ret.op = "addSubMap" /\ \A e \in Entries(ret.pre[ret.arg]) : ~isAbsolute(e[1]))
        => C3_AddSubMapRekeys

\* C4: addSubMap throws and leaves the parent unchanged when the root of the
\* sub-registry is neither the parent's root nor a directory below it.
C4_AddSubMapRejectsForeignRoot ==
    (ret.op = "addSubMap" /\ ~AtOrBelow(ret.pre[ret.arg].targetDir,
                                         ret.pre[ret.id].targetDir)) =>
        ret.threw /\ maps[ret.id] = ret.pre[ret.id]

\* C5: resolve of a path whose key has no entry throws 'unknown path', a
\* value is returned only for a registered key, and the lookup changes nothing.
C5_ResolveUnknownThrows ==
    ret.op = "resolve" =>
        LET before == ret.pre[ret.id]
            rel == toRelPath(before, ret.arg)
        IN  /\ maps = ret.pre
            /\ (~rel.threw /\ \A e \in Entries(before) : e[1] # rel.relPath) =>
                  ret.threw /\ ret.error = "unknown path"
            /\ ~ret.threw =>
                  ~rel.threw /\ <<rel.relPath, ret.value>> \in Entries(before)

\* C5, its case: a lookup of an unregistered key in a non-empty registry.
C5_Witness ==
    /\ ret.op = "resolve" /\ ret.threw /\ ret.error = "unknown path"
    /\ Len(maps[ret.id].assets) > 0

\* C6: every key is relative to the root; write, writeUnhashed and resolve
\* use the root-relative remainder of an absolute path under the root, and
\* fail without changing an entry for an absolute path outside the root.
C6_KeysRelativeToRoot ==
    /\ \A id \in MapIds : \A e \in Entries(maps[id]) : ~isAbsolute(e[1])
    /\ (ret.op \in {"write", "writeUnhashed", "resolve"} /\ isAbsolute(ret.arg)) =>
          LET root == ret.pre[ret.id].targetDir
          IN  IF startsWith(ret.arg, root \o "/")
              THEN /\ ret.error # "not within target dir"
                   /\ (ret.op \in {"write", "writeUnhashed"}) =>
                         mapHas(maps[ret.id].assets, substr(ret.arg, Len(root) + 1))
              ELSE ret.threw /\ maps = ret.pre

-----------------------------------------------------------------------------
(* The release fingerprint and the cache-tier classifier *)

RECURSIVE resolvedOf(_)
\* Array.from(assets).map(([, resolved]) => resolved)
resolvedOf(entries) ==
    IF entries = <<>> THEN <<>>
    ELSE <<Head(entries)[2]>> \o resolvedOf(Tail(entries))

RECURSIVE unresolvedOf(_)
unresolvedOf(entries) ==
    IF entries = <<>> THEN <<>>
    ELSE <<Head(entries)[1]>> \o unresolvedOf(Tail(entries))

\* the fingerprint computed without sorting the resolved paths
globalHashOf_unsorted(self) ==
    contentHash(ArrayJoin(resolvedOf(self.assets), ","))

\* the fingerprint computed over the logical paths instead of the resolved ones
globalHashOf_unresolved(self) ==
    contentHash(ArrayJoin(ArraySort(unresolvedOf(self.assets)), ","))

\* globalHash of build: the digest of the sorted, comma-joined resolved paths
globalHashOf(self) ==
    contentHash(ArrayJoin(ArraySort(resolvedOf(self.assets)), ","))

SERVICEWORKER_NONCACHED_ASSETS == {"hydrogen-legacy.js", "olm_legacy.js", "sw.js"}

\* isPreCached without the exception for worker.js
isPreCached_workerToo(asset) ==
    \/ endsWith(asset, ".svg")
    \/ endsWith(asset, ".png")
    \/ endsWith(asset, ".css")
    \/ endsWith(asset, ".wasm")
    \/ endsWith(asset, ".js")

isPreCached(asset) ==
    \/ endsWith(asset, ".svg")
    \/ endsWith(asset, ".png")
    \/ endsWith(asset, ".css")
    \/ endsWith(asset, ".wasm")
    \/ (endsWith(asset, ".js") /\ asset # "worker.js")

RECURSIVE classify(_, _)
\* the loop of buildServiceWorker over the entries of the registry
classify(entries, lists) ==
    IF entries = <<>> THEN lists
    ELSE LET unresolved == Head(entries)[1]
             resolved == Head(entries)[2]
         IN  classify(Tail(entries),
                IF unresolved \in SERVICEWORKER_NONCACHED_ASSETS THEN lists
                ELSE IF unresolved = resolved
                THEN [lists EXCEPT !.unhashedPreCachedAssets = Append(@, resolved)]
                ELSE IF isPreCached(unresolved)
                THEN [lists EXCEPT !.hashedPreCachedAssets = Append(@, resolved)]
                ELSE [lists EXCEPT !.hashedCachedOnRequestAssets = Append(@, resolved)])

RECURSIVE quoted(_)
quoted(arr) ==
    IF arr = <<>> THEN <<>> ELSE <<"\"" \o Head(arr) \o "\"">> \o quoted(Tail(arr))

\* JSON.stringify of an array of strings
stringify(arr) == "[" \o ArrayJoin(quoted(arr), ",") \o "]"

\* buildServiceWorker with the list of unhashed assets starting empty
buildServiceWorker_unseeded(globalHash, self, fs) ==
    LET lists == classify(self.assets,
                    [unhashedPreCachedAssets |-> <<>>,
                     hashedPreCachedAssets |-> <<>>,
                     hashedCachedOnRequestAssets |-> <<>>])
        swSource == "\"" \o globalHash \o "\";"
                       \o stringify(lists.unhashedPreCachedAssets) \o ";"
                       \o stringify(lists.hashedPreCachedAssets) \o ";"
                       \o stringify(lists.hashedCachedOnRequestAssets)
    IN  [lists |-> lists, swSource |-> swSource,
         written |-> writeUnhashedResult(self, fs, "sw.js", swSource)]

\* buildServiceWorker(globalHash, assets): the three lists, the text of sw.js
\* (the values put in place of the four placeholders of the template) and
\* the outcome of writeUnhashed("sw.js", swSource)
buildServiceWorker(globalHash, self, fs) ==
    LET lists == classify(self.assets,
                    [unhashedPreCachedAssets |-> <<"index.html">>,
                     hashedPreCachedAssets |-> <<>>,
                     hashedCachedOnRequestAssets |-> <<>>])
        swSource == "\"" \o globalHash \o "\";"
                       \o stringify(lists.unhashedPreCachedAssets) \o ";"
                       \o stringify(lists.hashedPreCachedAssets) \o ";"
                       \o stringify(lists.hashedCachedOnRequestAssets)
    IN  [lists |-> lists, swSource |-> swSource,
         written |-> writeUnhashedResult(self, fs, "sw.js", swSource)]

-----------------------------------------------------------------------------
(* The classifier harness: the registries of two builds, each filled by     *)
(* write and writeUnhashed and then fingerprinted and classified; the       *)
(* second build starts when the first has written its sw.js.                *)

\* number of entries a registry holds when it is fingerprinted and classified
MaxAssets == 2

\* the output directory of the second build
OtherTargetDir == "/u/"

\* what the first build may register: [hashed, path, content]
SwAssets ==
    {<<TRUE, "hydrogen.js", "x">>, <<TRUE, "hydrogen.js", "y">>,
     <<TRUE, "hydrogen-legacy.js", "x">>, <<TRUE, "olm_legacy.js", "x">>,
     <<TRUE, "worker.js", "x">>, <<TRUE, "olm.wasm", "x">>,
     <<TRUE, "themes/e/bundle.css", "x">>, <<TRUE, "icon.png", "x">>,
     <<TRUE, "i.svg", "x">>, <<TRUE, "manifest.json", "x">>,
     <<FALSE, "index.html", "x">>, <<FALSE, "sw.js", "x">>,
     <<FALSE, "hydrogen-legacy.js", "x">>, <<FALSE, "config.js", "x">>}

\* what the second build may register
SwOtherAssets ==
    {<<TRUE, "hydrogen.js", "x">>, <<TRUE, "hydrogen.js", "y">>,
     <<TRUE, "olm.wasm", "x">>, <<FALSE, "index.html", "y">>}

SwInputs(id) == IF id = "assets" THEN SwAssets ELSE SwOtherAssets

SwInit ==
    /\ maps = [id \in MapIds |->
                 IF id = "assets" THEN AssetMap(TargetDir) ELSE AssetMap(OtherTargetDir)]
    /\ disk = [files |-> EmptyFn, dirs |-> {"/", "/t", "/t/themes", "/t/themes/e", "/u"}]
    /\ hist = [id \in MapIds |-> EmptyFn]
    /\ ret = Ret("none", "assets", "", FALSE, "", "", FALSE, maps)
    /\ nOps = [id \in MapIds |-> 0]
    /\ sw = [id \in MapIds |-> NoSw]
    /\ proc = NoProc

\* the build id has not classified yet, and the second build waits for the
\* first
SwOpen(id) ==
    /\ ~sw[id].done
    /\ id = "other" => sw["assets"].done

\* a build registers at most MaxAssets times
SwMayRegister(id) == SwOpen(id) /\ nOps[id] < MaxAssets

SwWrite ==
    \E id \in MapIds : \E in \in SwInputs(id) :
        /\ SwMayRegister(id)
        /\ in[1]
        /\ write(id, in[2], in[3])

SwWriteUnhashed ==
    \E id \in MapIds : \E in \in SwInputs(id) :
        /\ SwMayRegister(id)
        /\ ~in[1]
        /\ writeUnhashed(id, in[2], in[3])

\* lines 84 to 87 of build: the fingerprint, then buildServiceWorker
SwBuildServiceWorker ==
    \E id \in MapIds :
      \E globalHash \in {globalHashOf(maps[id])} :
        \E r \in {buildServiceWorker(globalHash, maps[id], disk)} :
            /\ SwOpen(id)
            /\ sw' = [sw EXCEPT ![id] =
                        [done |-> TRUE, entries |-> maps[id].assets,
                         globalHash |-> globalHash,
                         unhashedPreCachedAssets |-> r.lists.unhashedPreCachedAssets,
                         hashedPreCachedAssets |-> r.lists.hashedPreCachedAssets,
                         hashedCachedOnRequestAssets |->
                            r.lists.hashedCachedOnRequestAssets]]
            /\ maps' = [maps EXCEPT ![id].assets = r.written.assets]
            /\ disk' = r.written.fs
            /\ hist' = [hist EXCEPT ![id] =
                          Put(@, "sw.js", [by |-> "writeUnhashed", arg |-> "sw.js",
                                           returned |-> r.written.value])]
            /\ ret' = Ret("writeUnhashed", id, "sw.js", r.written.threw, r.written.error,
                          r.written.value, FALSE, maps)
            /\ UNCHANGED <<nOps, proc>>

SwNext ==
    \/ SwWrite
    \/ SwWriteUnhashed
    \/ SwBuildServiceWorker

SpecSw == SwInit /\ [][SwNext]_vars

-----------------------------------------------------------------------------
(* Claims about the classifier and the fingerprint, checked under SpecSw *)

\* the tier the priority order of C7 gives an entry of the registry
TierOf(e) ==
    IF e[1] \in {"hydrogen-legacy.js", "olm_legacy.js", "sw.js"} THEN "excluded"
    ELSE IF e[1] = e[2] THEN "unhashed-precache"
    ELSE IF \/ \E ext \in {".svg", ".png", ".css", ".wasm"} : endsWith(e[1], ext)
            \/ (endsWith(e[1], ".js") /\ e[1] # "worker.js")
         THEN "hashed-precache"
    ELSE "hashed-on-request"

InUnhashedTier(e) == TierOf(e) = "unhashed-precache"
InPreCachedTier(e) == TierOf(e) = "hashed-precache"
InOnRequestTier(e) == TierOf(e) = "hashed-on-request"
InNoTier(e) == TierOf(e) = "excluded"

\* C7: buildServiceWorker puts the hashed path of every entry of the registry
\* in the list of its tier and in no other (index.html leads the unhashed
\* list); excluded entries are in no list, and no entry is dropped.
C7_CacheTiers ==
    \A id \in MapIds : sw[id].done =>
        /\ sw[id].unhashedPreCachedAssets =
              <<"index.html">> \o resolvedOf(SelectSeq(sw[id].entries, InUnhashedTier))
        /\ sw[id].hashedPreCachedAssets =
              resolvedOf(SelectSeq(sw[id].entries, InPreCachedTier))
        /\ sw[id].hashedCachedOnRequestAssets =
              resolvedOf(SelectSeq(sw[id].entries, InOnRequestTier))
        /\ Len(sw[id].unhashedPreCachedAssets) - 1 + Len(sw[id].hashedPreCachedAssets)
              + Len(sw[id].hashedCachedOnRequestAssets)
              + Len(SelectSeq(sw[id].entries, InNoTier)) = Len(sw[id].entries)

\* C7, its case: a classified registry that held worker.js (on request) and
\* an entry of another tier.
C7_Witness ==
    \E id \in MapIds :
        /\ sw[id].done
        /\ Len(sw[id].hashedCachedOnRequestAssets) = 1
        /\ \E i \in 1..Len(sw[id].entries) : sw[id].entries[i][1] = "worker.js"
        /\ Len(sw[id].entries) = 2

PairsOf(entries) == {entries[i] : i \in 1..Len(entries)}

\* C8: two builds whose registries hold the same set of (logical, hashed)
\* pairs compute the same fingerprint, whatever the order of registration.
C8_FingerprintOrderIndependent ==
    (sw["assets"].done /\ sw["other"].done
        /\ PairsOf(sw["assets"].entries) = PairsOf(sw["other"].entries))
    => sw["assets"].globalHash = sw["other"].globalHash

\* C8, its case: the same two pairs, registered in opposite orders.
C8_Witness ==
    /\ sw["assets"].done /\ sw["other"].done
    /\ PairsOf(sw["assets"].entries) = PairsOf(sw["other"].entries)
    /\ Len(sw["assets"].entries) = 2
    /\ sw["assets"].entries # sw["other"].entries

\* how often the resolved path v occurs among the entries
Occurrences(entries, v) == Cardinality({i \in 1..Len(entries) : entries[i][2] = v})

SameResolvedPaths(a, b) ==
    \A v \in {e[2] : e \in PairsOf(a) \cup PairsOf(b)} :
        Occurrences(a, v) = Occurrences(b, v)

\* C9: with an injective contentHash the fingerprints of two builds differ
\* exactly when the collections of resolved paths of their registries differ.
C9_FingerprintIffResolvedPaths ==
    (sw["assets"].done /\ sw["other"].done) =>
        (sw["assets"].globalHash # sw["other"].globalHash
            <=> ~SameResolvedPaths(sw["assets"].entries, sw["other"].entries))

\* C9, its case: two builds with the same logical paths that differ in one
\* hashed path, with an unhashed index.html in both.
C9_Witness ==
    /\ sw["assets"].done /\ sw["other"].done
    /\ sw["assets"].globalHash # sw["other"].globalHash
    /\ {e[1] : e \in PairsOf(sw["assets"].entries)} = {"hydrogen.js", "index.html"}
    /\ {e[1] : e \in PairsOf(sw["other"].entries)} = {"hydrogen.js", "index.html"}

-----------------------------------------------------------------------------
(* The build: one run of build(program), from the start of the process to   *)
(* its exit. The project is the input: the theme links of index.html, the   *)
(* folder lib/olm, the folder of a theme, the asset URLs of theme.css.      *)

\* path.join(projectDir, "src/ui/web/css/")
cssSrcDir == "/c/"

\* path.join(projectDir, "lib/olm/")
olmSrcDir == "/l/"

File(name, content) ==
    [name |-> name, type |-> "file", content |-> content, entries |-> <<>>]

Dir(name, entries) ==
    [name |-> name, type |-> "dir", content |-> "", entries |-> entries]

\* a symbolic link to a file of this content
Symlink(name, content) ==
    [name |-> name, type |-> "symlink", content |-> content, entries |-> <<>>]

\* a directory entry that is neither directory, file nor symbolic link
Other(name) ==
    [name |-> name, type |-> "other", content |-> "", entries |-> <<>>]

\* F of the value of x, x evaluated once
With(x, F(_)) == CHOOSE y \in {F(v) : v \in {x}} : TRUE

\* what happened in a step of the build: the registry and the filesystem it
\* leaves, and the error it threw, if any
Outcome(threw, error, map, fs) ==
    [threw |-> threw, error |-> error, map |-> map, fs |-> fs]

\* String.indexOf from a position; positions count from 1, 0 is not found
indexOf(s, sub, from) ==
    LET at(j) == SubSeq(s, j, j + Len(sub) - 1) = sub
        last == Len(s) - Len(sub) + 1
    IN  IF \E j \in from..last : at(j)
        THEN CHOOSE j \in from..last : at(j) /\ \A k \in from..(j - 1) : ~at(k)
        ELSE 0

RECURSIVE findThemes(_)
\* findThemes(doc, callback) with the callback of build: the theme names of
\* the hrefs of the titled stylesheet links
findThemes(hrefs) ==
    IF hrefs = <<>> THEN <<>>
    ELSE LET href == Head(hrefs)
             themesPrefix == "/themes/"
             prefixIdx == indexOf(href, themesPrefix, 1)
             themeNameStart == prefixIdx + Len(themesPrefix)
             themeNameEnd == indexOf(href, "/", themeNameStart)
         IN  (IF prefixIdx # 0
              THEN <<SubSeq(href, themeNameStart, themeNameEnd - 1)>>
              ELSE <<>>) \o findThemes(Tail(hrefs))

\* fs.mkdir(p)
mkdir(fs, p) ==
    LET d == pathResolve(p)
    IN  IF d \in fs.dirs THEN [threw |-> TRUE, error |-> "EEXIST", fs |-> fs]
        ELSE IF dirname(d) \notin fs.dirs
        THEN [threw |-> TRUE, error |-> "ENOENT", fs |-> fs]
        ELSE [threw |-> FALSE, error |-> "", fs |-> [fs EXCEPT !.dirs = @ \cup {d}]]

\* fs.rmdir(dir, {recursive: true}); denied stands for a failure of the
\* filesystem other than the absence of dir
rmdir(fs, dir, denied) ==
    LET d == pathResolve(dir)
        below(p) == startsWith(p, d \o "/")
        kept == {f \in DOMAIN fs.files : ~below(f)}
    IN  IF denied THEN [threw |-> TRUE, error |-> "EACCES", fs |-> fs]
        ELSE IF d \notin fs.dirs THEN [threw |-> TRUE, error |-> "ENOENT", fs |-> fs]
        ELSE [threw |-> FALSE, error |-> "",
              fs |-> [files |-> [f \in kept |-> fs.files[f]],
                      dirs |-> {x \in fs.dirs : x # d /\ ~below(x)}]]

\* removeDirIfExists without its catch: every error of rmdir is thrown
removeDirIfExists_rethrowsAll(fs, targetDir, denied) == rmdir(fs, targetDir, denied)

\* removeDirIfExists(targetDir)
removeDirIfExists(fs, targetDir, denied) ==
    LET r == rmdir(fs, targetDir, denied)
    IN  IF r.threw /\ r.error # "ENOENT" THEN r
        ELSE [threw |-> FALSE, error |-> "", fs |-> r.fs]

RECURSIVE mkdirThemes(_, _, _)
\* the loop of createDirs over the themes
mkdirThemes(fs, themeDir, themes) ==
    IF themes = <<>> THEN [threw |-> FALSE, error |-> "", fs |-> fs]
    ELSE With(mkdir(fs, join(themeDir, Head(themes))),
              LAMBDA m : IF m.threw THEN m
                         ELSE mkdirThemes(m.fs, themeDir, Tail(themes)))

\* createDirs(targetDir, themes)
createDirs(fs, targetDir, themes) ==
    With(mkdir(fs, targetDir), LAMBDA m1 :
        IF m1.threw THEN m1
        ELSE With(mkdir(m1.fs, join(targetDir, "themes")), LAMBDA m2 :
                IF m2.threw THEN m2
                ELSE mkdirThemes(m2.fs, join(targetDir, "themes"), themes)))

\* the filter of a copyFolder call: none, or the one of copyThemeAssets
filterPasses(filter, file) == filter = "none" \/ ~endsWith(file, ".css")

\* the registry after a write: its entries are those the call left
Registered(assets, w) == [assets EXCEPT !.assets = w.assets]

\* the directory test of copyFolder made subject to the filter
isDirectory_filtered(dirEnt, srcPath, filter) ==
    dirEnt.type = "dir" /\ filterPasses(filter, srcPath)

\* dirEnt.isDirectory() in copyFolder: the filter has no part in it
isDirectory(dirEnt, srcPath, filter) == dirEnt.type = "dir"

RECURSIVE copyFolder(_, _, _, _, _, _)
\* copyFolder(srcRoot, dstRoot, filter, assets), with the entries readdir
\* gives for srcRoot
copyFolder(dirEnts, srcRoot, dstRoot, filter, assets, fs) ==
    IF dirEnts = <<>> THEN Outcome(FALSE, "", assets, fs)
    ELSE LET dirEnt == Head(dirEnts)
             dstPath == join(dstRoot, dirEnt.name)
             srcPath == join(srcRoot, dirEnt.name)
         IN  IF isDirectory(dirEnt, srcPath, filter)
             THEN With(mkdir(fs, dstPath), LAMBDA m :
                    IF m.threw THEN Outcome(TRUE, m.error, assets, fs)
                    ELSE With(copyFolder(dirEnt.entries, srcPath, dstPath, filter,
                                         assets, m.fs),
                              LAMBDA sub :
                                IF sub.threw THEN sub
                                ELSE copyFolder(Tail(dirEnts), srcRoot, dstRoot, filter,
                                                sub.map, sub.fs)))
             ELSE IF dirEnt.type \in {"file", "symlink"} /\ filterPasses(filter, srcPath)
             THEN With(writeResult(assets, fs, dstPath, dirEnt.content), LAMBDA w :
                    IF w.threw THEN Outcome(TRUE, w.error, Registered(assets, w), w.fs)
                    ELSE copyFolder(Tail(dirEnts), srcRoot, dstRoot, filter,
                                    Registered(assets, w), w.fs))
             ELSE copyFolder(Tail(dirEnts), srcRoot, dstRoot, filter, assets, fs)

\* lines 69 to 72 of build: the registry, the copy of lib/olm, the merge
copyOlm(olm, fs) ==
    With(AssetMap(TargetDir), LAMBDA assets :
      With(copyFolder(olm, olmSrcDir, assets.targetDir, "none",
                      AssetMap(assets.targetDir), fs),
           LAMBDA olmAssets :
             IF olmAssets.threw THEN Outcome(TRUE, olmAssets.error, assets, olmAssets.fs)
             ELSE With(addSubMapResult(assets, olmAssets.map), LAMBDA merged :
                    IF merged.threw
                    THEN Outcome(TRUE, "not a submap", assets, olmAssets.fs)
                    ELSE Outcome(FALSE, "", Registered(assets, merged), olmAssets.fs))))

RECURSIVE copyThemeAssets(_, _, _, _)
\* copyThemeAssets(themes, assets), every theme folder holding themeFolder
copyThemeAssets(themes, themeFolder, assets, fs) ==
    IF themes = <<>> THEN Outcome(FALSE, "", assets, fs)
    ELSE LET theme == Head(themes)
             themeDstFolder == join(assets.targetDir, "themes/" \o theme)
             themeSrcFolder == join(cssSrcDir, "themes/" \o theme)
         IN  With(copyFolder(themeFolder, themeSrcFolder, themeDstFolder,
                             "notCss", AssetMap(themeDstFolder), fs),
                  LAMBDA themeAssets :
                    IF themeAssets.threw
                    THEN Outcome(TRUE, themeAssets.error, assets, themeAssets.fs)
                    ELSE With(addSubMapResult(assets, themeAssets.map), LAMBDA merged :
                           IF merged.threw
                           THEN Outcome(TRUE, "not a submap", assets, themeAssets.fs)
                           ELSE copyThemeAssets(Tail(themes), themeFolder,
                                                Registered(assets, merged),
                                                themeAssets.fs)))

\* the logical path assetUrlMapper resolves for absolutePath
urlKey(themeRelPath, themeRoot, absolutePath) ==
    join(themeRelPath, substr(absolutePath, Len(themeRoot)))

\* assetUrlMapper without its test of the theme root
assetUrlMapper_noRootCheck(assets, themeRelPath, themeRoot, absolutePath) ==
    LET hashedDstPath == resolve(assets, urlKey(themeRelPath, themeRoot, absolutePath))
    IN  IF hashedDstPath.threw THEN hashedDstPath
        ELSE [threw |-> FALSE, error |-> "",
              value |-> substr(hashedDstPath.value, Len(themeRelPath))]

\* assetUrlMapper({absolutePath}) of buildCssBundles
assetUrlMapper(assets, themeRelPath, themeRoot, absolutePath) ==
    LET hashedDstPath == resolve(assets, urlKey(themeRelPath, themeRoot, absolutePath))
    IN  IF ~startsWith(absolutePath, themeRoot)
        THEN [threw |-> TRUE, error |-> "resource is out of theme directory", value |-> ""]
        ELSE IF hashedDstPath.threw THEN hashedDstPath
        ELSE [threw |-> FALSE, error |-> "",
              value |-> substr(hashedDstPath.value, Len(themeRelPath))]

RECURSIVE mapUrls(_, _, _, _, _)
\* the css of a theme after postcss-url has mapped the URLs of theme.css
mapUrls(assets, themeRelPath, themeRoot, urls, css) ==
    IF urls = <<>> THEN [threw |-> FALSE, error |-> "", value |-> css]
    ELSE With(assetUrlMapper(assets, themeRelPath, themeRoot, Head(urls)), LAMBDA u :
            IF u.threw THEN u
            ELSE mapUrls(assets, themeRelPath, themeRoot, Tail(urls),
                         css \o "," \o u.value))

RECURSIVE bundleThemes(_, _, _, _)
\* the loop of buildCssBundles over the themes
bundleThemes(themes, urls, assets, fs) ==
    IF themes = <<>> THEN Outcome(FALSE, "", assets, fs)
    ELSE LET themeRelPath == "themes/" \o Head(themes) \o "/"
             themeRoot == join(cssSrcDir, themeRelPath)
         IN  With(mapUrls(assets, themeRelPath, themeRoot, urls, "t"), LAMBDA themeCss :
               IF themeCss.threw THEN Outcome(TRUE, themeCss.error, assets, fs)
               ELSE With(writeResult(assets, fs, join(themeRelPath, "bundle.css"),
                                     themeCss.value),
                         LAMBDA w :
                           IF w.threw
                           THEN Outcome(TRUE, w.error, Registered(assets, w), w.fs)
                           ELSE bundleThemes(Tail(themes), urls,
                                             Registered(assets, w), w.fs)))

\* buildCssBundles(buildFn, themes, assets)
buildCssBundles(themes, urls, assets, fs) ==
    With(writeResult(assets, fs, "hydrogen.css", "c"), LAMBDA w :
        IF w.threw THEN Outcome(TRUE, w.error, Registered(assets, w), w.fs)
        ELSE bundleThemes(themes, urls, Registered(assets, w), w.fs))

RECURSIVE writeIcons(_, _, _, _)
\* the loop of buildManifest over webManifest.icons; json collects the
\* hashed paths that take the place of icon.src
writeIcons(icons, json, assets, fs) ==
    IF icons = <<>> THEN [threw |-> FALSE, error |-> "", map |-> assets, fs |-> fs,
                          json |-> json]
    ELSE LET icon == Head(icons)
             iconTargetPath == basename(icon.src, "")
         IN  With(writeResult(assets, fs, iconTargetPath, icon.data), LAMBDA w :
               IF w.threw
               THEN [threw |-> TRUE, error |-> w.error, map |-> Registered(assets, w),
                     fs |-> w.fs, json |-> json]
               ELSE writeIcons(Tail(icons), json \o "," \o w.value,
                               Registered(assets, w), w.fs))

\* buildManifest(assets), icons being the icons of assets/manifest.json
buildManifest(icons, assets, fs) ==
    With(writeIcons(icons, "m", assets, fs), LAMBDA i :
        IF i.threw THEN Outcome(TRUE, i.error, i.map, i.fs)
        ELSE With(writeResult(i.map, i.fs, "manifest.json", i.json),
                  LAMBDA w : Outcome(w.threw, w.error, Registered(i.map, w), w.fs)))

RECURSIVE resolveAll(_, _)
\* the first failure among the resolve calls made for the given paths
resolveAll(assets, paths) ==
    IF paths = <<>> THEN [threw |-> FALSE, error |-> "", value |-> ""]
    ELSE With(resolve(assets, Head(paths)), LAMBDA r :
            IF r.threw THEN r ELSE resolveAll(assets, Tail(paths)))

RECURSIVE themeLinks(_, _)
\* the hrefs buildHtml gives the theme links from inside findThemes; that
\* call is not awaited, so a throw of its callback does not reject buildHtml
themeLinks(assets, themes) ==
    IF themes = <<>> THEN ""
    ELSE "<link " \o resolve(assets, "themes/" \o Head(themes) \o "/bundle.css").value
            \o ">" \o themeLinks(assets, Tail(themes))

\* the text of index.html were the legacy tags pushed whatever modernOnly is
htmlOf_legacyTagsAlways(assets, themes, globalHash, modernOnly) ==
    LET pathsJSON == (IF has(assets, "worker.js")
                      THEN resolve(assets, "worker.js").value ELSE "null")
                        \o "," \o resolve(assets, "olm.wasm").value
                        \o "," \o resolve(assets, "olm_legacy.js").value
                        \o "," \o resolve(assets, "olm.js").value
    IN  "<link " \o resolve(assets, "hydrogen.css").value \o ">"
           \o themeLinks(assets, themes)
           \o "<script module " \o resolve(assets, "hydrogen.js").value
           \o " " \o pathsJSON \o ">"
           \o "<script nomodule " \o resolve(assets, "hydrogen-legacy.js").value
           \o "><script nomodule " \o pathsJSON \o ">"
           \o "<version " \o globalHash \o ">"
           \o "<link manifest " \o resolve(assets, "manifest.json").value \o ">"

\* the text of index.html buildHtml writes: the paths it resolved
htmlOf(assets, themes, globalHash, modernOnly) ==
    LET pathsJSON == (IF has(assets, "worker.js")
                      THEN resolve(assets, "worker.js").value ELSE "null")
                        \o "," \o resolve(assets, "olm.wasm").value
                        \o "," \o resolve(assets, "olm_legacy.js").value
                        \o "," \o resolve(assets, "olm.js").value
    IN  "<link " \o resolve(assets, "hydrogen.css").value \o ">"
           \o themeLinks(assets, themes)
           \o "<script module " \o resolve(assets, "hydrogen.js").value
           \o " " \o pathsJSON \o ">"
           \o (IF modernOnly THEN ""
               ELSE "<script nomodule " \o resolve(assets, "hydrogen-legacy.js").value
                      \o "><script nomodule " \o pathsJSON \o ">")
           \o "<version " \o globalHash \o ">"
           \o "<link manifest " \o resolve(assets, "manifest.json").value \o ">"

\* the logical paths buildHtml itself resolves, in the order of its calls
htmlPaths(modernOnly, assets) ==
    <<"hydrogen.css">>
      \o (IF has(assets, "worker.js") THEN <<"worker.js">> ELSE <<>>)
      \o <<"olm.wasm", "olm_legacy.js", "olm.js", "hydrogen.js">>
      \o (IF modernOnly THEN <<>> ELSE <<"hydrogen-legacy.js">>)
      \o <<"manifest.json">>

\* buildHtml(doc, version, globalHash, modernOnly, assets)
buildHtml(themes, globalHash, modernOnly, assets, fs) ==
    With(resolveAll(assets, htmlPaths(modernOnly, assets)),
         LAMBDA resolved :
           IF resolved.threw THEN Outcome(TRUE, resolved.error, assets, fs)
           ELSE With(writeUnhashedResult(assets, fs, "index.html",
                                         htmlOf(assets, themes, globalHash, modernOnly)),
                     LAMBDA w : Outcome(w.threw, w.error, Registered(assets, w), w.fs)))

-----------------------------------------------------------------------------
(* The run of the process *)

\* the titled stylesheet links of index.html: none, or the theme e
Hrefs == {<<>>, <<"src/ui/web/css/themes/e/bundle.css">>}

\* what lib/olm holds: the three olm files, or only two of them
OlmFolders ==
    {<<File("olm.js", "x"), File("olm.wasm", "y"), File("olm_legacy.js", "x")>>,
     <<File("olm.js", "x"), File("olm.wasm", "y")>>}

\* what the folder of a theme holds
ThemeFolders ==
    {<<File("theme.css", "x"), File("icon.svg", "y")>>,
     <<File("theme.css", "x"), Dir("icons", <<File("icon.svg", "y")>>)>>,
     <<File("theme.css", "x"),
       Dir("d.css", <<File("n.css", "x"), File("n.svg", "y"),
                      Dir("deep", <<Symlink("l.svg", "x")>>)>>),
       Other("sock")>>}

\* the asset URLs of theme.css: none, assets of the theme, an asset of
\* another theme, an asset of a theme whose name begins with the name of
\* this one, an asset outside the themes
CssUrls ==
    {<<>>, <<"/c/themes/e/icon.svg">>, <<"/c/themes/f/icon.svg">>,
     <<"/c/themes/e/icons/icon.svg">>, <<"/c/themes/e2/icon.svg">>,
     <<"/c/themes/e/icon.svg", "/c/x.svg">>}

\* the icons of assets/manifest.json: one icon, or two icons of the same
\* file name in two folders
Manifests ==
    {<<[src |-> "assets/icon.png", data |-> "i"]>>,
     <<[src |-> "assets/icon.png", data |-> "i"],
       [src |-> "assets/l/icon.png", data |-> "j"]>>}

\* the output tree a previous build left, beside a folder that is not part
\* of it
StaleDisk ==
    [files |-> Put(Put(Put(EmptyFn, "/t/old.js", "x"), "/t/themes/old.css", "y"),
                   "/t2/keep.js", "x"),
     dirs |-> {"/", "/t", "/t/themes", "/t2"}]

BuildInit ==
    /\ maps = [id \in MapIds |-> AssetMap(TargetDir)]
    /\ disk \in {[files |-> EmptyFn, dirs |-> {"/"}], StaleDisk}
    /\ hist = [id \in MapIds |-> EmptyFn]
    /\ ret = Ret("none", "assets", "", FALSE, "", "", FALSE, maps)
    /\ nOps = [id \in MapIds |-> 0]
    /\ sw = [id \in MapIds |-> NoSw]
    /\ \E modernOnly \in BOOLEAN, hrefs \in Hrefs, olm \in OlmFolders,
          themeFolder \in ThemeFolders, urls \in CssUrls, icons \in Manifests :
         proc = [pc |-> "build", modernOnly |-> modernOnly, hrefs |-> hrefs,
                 olm |-> olm, themeFolder |-> themeFolder, urls |-> urls,
                 icons |-> icons, stale |-> disk = StaleDisk,
                 themes |-> <<>>, globalHash |-> "", error |-> "", done |-> <<>>,
                 stdout |-> <<>>, stderr |-> <<>>, exitCode |-> -1]

\* a step of build whose throw does not stop build: the error is kept and
\* build goes on at next
Settle_continues(r, next) ==
    /\ maps' = [maps EXCEPT !["assets"] = r.map]
    /\ disk' = r.fs
    /\ proc' = IF r.threw THEN [proc EXCEPT !.pc = next, !.error = r.error]
               ELSE [proc EXCEPT !.pc = next, !.done = Append(@, proc.pc)]
    /\ UNCHANGED <<hist, ret, nOps, sw>>

\* a step of build ends: it leaves the registry and the filesystem of its
\* outcome, and build goes on at next or is rejected with the error; done
\* lists the steps that returned
Settle(r, next) ==
    /\ maps' = [maps EXCEPT !["assets"] = r.map]
    /\ disk' = r.fs
    /\ proc' = IF r.threw THEN [proc EXCEPT !.pc = "rejected", !.error = r.error]
               ELSE [proc EXCEPT !.pc = next, !.done = Append(@, proc.pc)]
    /\ UNCHANGED <<hist, ret, nOps, sw>>

\* a step of build fails in the environment before it changes anything
EnvFails ==
    /\ proc' = [proc EXCEPT !.pc = "rejected", !.error = "EIO"]
    /\ UNCHANGED <<maps, disk, hist, ret, nOps, sw>>

\* lines 57 to 64 of build: package.json and index.html are read, the
\* themes are found
RunReadInputs ==
    /\ proc.pc = "build"
    /\ \E fails \in BOOLEAN :
         IF fails THEN EnvFails
         ELSE /\ proc' = [proc EXCEPT !.pc = "removeDirIfExists",
                                      !.themes = findThemes(proc.hrefs),
                                      !.done = Append(@, proc.pc)]
              /\ UNCHANGED <<maps, disk, hist, ret, nOps, sw>>

\* line 67 of build
RunRemoveDirIfExists ==
    /\ proc.pc = "removeDirIfExists"
    /\ \E denied \in BOOLEAN :
         \E r \in {removeDirIfExists(disk, TargetDir, denied)} :
            Settle(Outcome(r.threw, r.error, maps["assets"], r.fs), "createDirs")

\* line 68 of build
RunCreateDirs ==
    /\ proc.pc = "createDirs"
    /\ \E fails \in BOOLEAN :
         IF fails THEN EnvFails
         ELSE \E r \in {createDirs(disk, TargetDir, proc.themes)} :
                 Settle(Outcome(r.threw, r.error, maps["assets"], r.fs), "copyOlm")

\* lines 69 to 72 of build
RunCopyOlm ==
    /\ proc.pc = "copyOlm"
    /\ \E fails \in BOOLEAN :
         IF fails THEN EnvFails
         ELSE \E r \in {copyOlm(proc.olm, disk)} : Settle(r, "buildJs")

\* line 73 of build: buildJs, then the write of hydrogen.js
RunBuildJs ==
    /\ proc.pc = "buildJs"
    /\ \E fails \in BOOLEAN :
         IF fails THEN EnvFails
         ELSE \E w \in {writeResult(maps["assets"], disk, "hydrogen.js", "x")} :
                 Settle(Outcome(w.threw, w.error, Registered(maps["assets"], w), w.fs),
                        "buildJsLegacy")

\* lines 74 to 77 of build left out: build goes on without the legacy bundles
RunBuildJsLegacy_skipped ==
    /\ proc.pc = "buildJsLegacy"
    /\ Settle(Outcome(FALSE, "", maps["assets"], disk), "copyThemeAssets")

\* lines 74 to 77 of build: the two legacy bundles, unless modernOnly
RunBuildJsLegacy ==
    /\ proc.pc = "buildJsLegacy"
    /\ IF proc.modernOnly
       THEN Settle(Outcome(FALSE, "", maps["assets"], disk), "copyThemeAssets")
       ELSE \E fails \in BOOLEAN :
              IF fails THEN EnvFails
              ELSE \E w1 \in {writeResult(maps["assets"], disk, "hydrogen-legacy.js", "y")} :
                   \E w2 \in {writeResult(Registered(maps["assets"], w1), w1.fs,
                                          "worker.js", "x")} :
                      IF w1.threw
                      THEN Settle(Outcome(TRUE, w1.error,
                                          Registered(maps["assets"], w1), w1.fs),
                                  "copyThemeAssets")
                      ELSE Settle(Outcome(w2.threw, w2.error,
                                          Registered(maps["assets"], w2), w2.fs),
                                  "copyThemeAssets")

\* line 80 of build
RunCopyThemeAssets ==
    /\ proc.pc = "copyThemeAssets"
    /\ \E fails \in BOOLEAN :
         IF fails THEN EnvFails
         ELSE \E r \in {copyThemeAssets(proc.themes, proc.themeFolder,
                                        maps["assets"], disk)} :
                 Settle(r, "buildCssBundles")

\* line 81 of build
RunBuildCssBundles ==
    /\ proc.pc = "buildCssBundles"
    /\ \E fails \in BOOLEAN :
         IF fails THEN EnvFails
         ELSE \E r \in {buildCssBundles(proc.themes, proc.urls, maps["assets"], disk)} :
                 Settle(r, "buildManifest")

\* line 82 of build
RunBuildManifest ==
    /\ proc.pc = "buildManifest"
    /\ \E fails \in BOOLEAN :
         IF fails THEN EnvFails
         ELSE \E r \in {buildManifest(proc.icons, maps["assets"], disk)} :
                 Settle(r, "buildServiceWorker")

\* lines 84 to 87 of build: the fingerprint, then buildServiceWorker
RunBuildServiceWorker ==
    /\ proc.pc = "buildServiceWorker"
    /\ \E fails \in BOOLEAN :
         IF fails THEN EnvFails
         ELSE \E globalHash \in {globalHashOf(maps["assets"])} :
              \E r \in {buildServiceWorker(globalHash, maps["assets"], disk)} :
                 /\ sw' = [sw EXCEPT !["assets"] =
                             [done |-> TRUE, entries |-> maps["assets"].assets,
                              globalHash |-> globalHash,
                              unhashedPreCachedAssets |-> r.lists.unhashedPreCachedAssets,
                              hashedPreCachedAssets |-> r.lists.hashedPreCachedAssets,
                              hashedCachedOnRequestAssets |->
                                 r.lists.hashedCachedOnRequestAssets]]
                 /\ maps' = [maps EXCEPT !["assets"].assets = r.written.assets]
                 /\ disk' = r.written.fs
                 /\ proc' = IF r.written.threw
                            THEN [proc EXCEPT !.pc = "rejected",
                                              !.error = r.written.error,
                                              !.globalHash = globalHash]
                            ELSE [proc EXCEPT !.pc = "buildHtml",
                                              !.globalHash = globalHash,
                                              !.done = Append(@, proc.pc)]
                 /\ UNCHANGED <<hist, ret, nOps>>

\* line 88 of build
RunBuildHtml ==
    /\ proc.pc = "buildHtml"
    /\ \E r \in {buildHtml(proc.themes, proc.globalHash, proc.modernOnly,
                           maps["assets"], disk)} :
          Settle(r, "log")

\* line 89 of build: the success message, and build is fulfilled
RunLog ==
    /\ proc.pc = "log"
    /\ proc' = [proc EXCEPT !.pc = "fulfilled", !.done = Append(@, proc.pc),
                            !.stdout = Append(@, "built hydrogen successfully")]
    /\ UNCHANGED <<maps, disk, hist, ret, nOps, sw>>

\* build(program).catch(err => console.error(err))
Catch ==
    /\ proc.pc = "rejected"
    /\ proc' = [proc EXCEPT !.pc = "handled", !.stderr = Append(@, proc.error)]
    /\ UNCHANGED <<maps, disk, hist, ret, nOps, sw>>

\* nothing is left to run: the process exits. No rejection is unhandled and
\* process.exitCode is never assigned, so the exit code is 0
Exit ==
    /\ proc.pc \in {"fulfilled", "handled"}
    /\ proc' = [proc EXCEPT !.pc = "exited", !.exitCode = 0]
    /\ UNCHANGED <<maps, disk, hist, ret, nOps, sw>>

BuildNext ==
    \/ RunReadInputs
    \/ RunRemoveDirIfExists
    \/ RunCreateDirs
    \/ RunCopyOlm
    \/ RunBuildJs
    \/ RunBuildJsLegacy
    \/ RunCopyThemeAssets
    \/ RunBuildCssBundles
    \/ RunBuildManifest
    \/ RunBuildServiceWorker
    \/ RunBuildHtml
    \/ RunLog
    \/ Catch
    \/ Exit

SpecBuild == BuildInit /\ [][BuildNext]_vars

-----------------------------------------------------------------------------
(* Claims about the run of the process, checked under SpecBuild *)

\* build was rejected in this run
BuildFailed == proc.error # ""

\* C10: when a phase of build fails, the process ends with the error logged
\* and with an exit code other than 0.
C10_FailureExitsNonZero ==
    (proc.pc = "exited" /\ BuildFailed) =>
        (proc.stderr = <<proc.error>> /\ proc.exitCode # 0)

\* C10, the part that holds: a failure of any phase is logged once before
\* the process exits, and a build that did not fail logs no error.
C10_FailureIsLogged ==
    proc.pc = "exited" =>
        (proc.stderr = IF BuildFailed THEN <<proc.error>> ELSE <<>>)

\* build was fulfilled in this run
BuildSucceeded == proc.pc \in {"fulfilled", "exited"} /\ proc.error = ""

\* the files in the output tree
OutputFiles ==
    {f \in DOMAIN disk.files : startsWith(f, pathResolve(TargetDir) \o "/")}

\* the files the entries of the registry resolve to
ResolvedFiles(self) == {join(self.targetDir, e[2]) : e \in Entries(self)}

\* C11: after a successful build the files of the output tree are exactly
\* the files the registry resolves to, and there are AssetMap.size of them.
C11_OutputIsRegistry ==
    BuildSucceeded =>
        /\ OutputFiles = ResolvedFiles(maps["assets"])
        /\ Cardinality(OutputFiles) = size(maps["assets"])

\* C11, the part that holds: the same, for a build that registers no logical
\* path twice (no two icons of the manifest have the same file name).
C11_OutputIsRegistryWithoutRewrite ==
    (BuildSucceeded /\ Len(proc.icons) = 1) =>
        /\ OutputFiles = ResolvedFiles(maps["assets"])
        /\ Cardinality(OutputFiles) = size(maps["assets"])

RECURSIVE FileKeys(_, _, _)
\* the paths, relative to the folder, of the regular files and symbolic
\* links at any depth of a folder, without the .css files if notCss
FileKeys(dirEnts, prefix, notCss) ==
    UNION {IF dirEnts[i].type = "dir"
           THEN FileKeys(dirEnts[i].entries, prefix \o dirEnts[i].name \o "/", notCss)
           ELSE IF /\ dirEnts[i].type \in {"file", "symlink"}
                   /\ ~(notCss /\ endsWith(dirEnts[i].name, ".css"))
                THEN {prefix \o dirEnts[i].name}
                ELSE {} : i \in 1..Len(dirEnts)}

ThemesOf(p) == {p.themes[i] : i \in 1..Len(p.themes)}

\* the logical paths the phases of this build register, from its inputs
ProjectKeys ==
    FileKeys(proc.olm, "", FALSE)
      \cup {"hydrogen.js", "hydrogen.css", "manifest.json"}
      \cup (IF proc.modernOnly THEN {} ELSE {"hydrogen-legacy.js", "worker.js"})
      \cup UNION {FileKeys(proc.themeFolder, "themes/" \o t \o "/", TRUE)
                    \cup {"themes/" \o t \o "/bundle.css"} : t \in ThemesOf(proc)}
      \cup {basename(proc.icons[i].src, "") : i \in 1..Len(proc.icons)}

\* the logical paths the URL rewriter of buildCssBundles is about to resolve
CssLookups ==
    UNION {{urlKey("themes/" \o t \o "/", cssSrcDir \o "themes/" \o t \o "/",
                   proc.urls[i]) :
              i \in {j \in 1..Len(proc.urls) :
                       startsWith(proc.urls[j], cssSrcDir \o "themes/" \o t \o "/")}} :
           t \in ThemesOf(proc)}

\* the logical paths buildHtml is about to resolve
HtmlLookups ==
    {htmlPaths(proc.modernOnly, maps["assets"])[i] :
        i \in 1..Len(htmlPaths(proc.modernOnly, maps["assets"]))}
      \cup {"themes/" \o t \o "/bundle.css" : t \in ThemesOf(proc)}

\* C12: every logical path a phase resolves that this build registers at all
\* is in the registry when the phase starts: the theme assets before
\* buildCssBundles, and all the paths of buildHtml before buildHtml.
C12_ResolvedAfterRegistered ==
    /\ proc.pc = "buildCssBundles" =>
          \A k \in CssLookups \cap ProjectKeys : has(maps["assets"], k)
    /\ proc.pc = "buildHtml" =>
          \A k \in HtmlLookups \cap ProjectKeys : has(maps["assets"], k)

\* C12, its case: buildHtml is about to run in a legacy build with a theme
\* whose css names an asset of the theme.
C12_Witness ==
    /\ proc.pc = "buildHtml"
    /\ ~proc.modernOnly
    /\ proc.themes = <<"e">>
    /\ proc.urls = <<"/c/themes/e/icon.svg">>
    /\ {"hydrogen-legacy.js", "worker.js", "themes/e/bundle.css"} \subseteq HtmlLookups

\* the steps of build that register assets, in the order of build
AssetSteps ==
    <<"build", "removeDirIfExists", "createDirs", "copyOlm", "buildJs",
      "buildJsLegacy", "copyThemeAssets", "buildCssBundles", "buildManifest">>

OnDisk(relPath) == join(pathResolve(TargetDir), relPath) \in DOMAIN disk.files

\* C13: once a step of build has failed, no registry entry and no file is
\* written any more; the fingerprint is computed only after every step that
\* registers assets has returned; index.html is on disk only when every
\* earlier step, the writing of sw.js included, has returned without error.
C13_FailureStopsBuild ==
    /\ [][BuildFailed => (maps' = maps /\ disk' = disk /\ sw' = sw
                           /\ proc'.done = proc.done)]_vars
    /\ [](sw["assets"].done => SubSeq(proc.done, 1, Len(AssetSteps)) = AssetSteps)
    /\ [](OnDisk("index.html") =>
            /\ ~BuildFailed
            /\ OnDisk("sw.js")
            /\ SubSeq(proc.done, 1, Len(AssetSteps) + 1)
                  = Append(AssetSteps, "buildServiceWorker"))

\* C13, its case: a build that failed after it had registered assets has
\* exited, with no index.html.
C13_Witness ==
    /\ proc.pc = "exited"
    /\ BuildFailed
    /\ Len(proc.done) >= 7
    /\ size(maps["assets"]) > 3
    /\ ~OnDisk("index.html")

\* the files and directories at or below the output directory
InTarget(fs) ==
    {p \in DOMAIN fs.files \cup fs.dirs : AtOrBelow(p, pathResolve(TargetDir))}

\* the filesystem build started with
InitialDisk == IF proc.stale THEN StaleDisk ELSE [files |-> EmptyFn, dirs |-> {"/"}]

\* C14: removeDirIfExists returns without error when the output directory is
\* absent, and when it is there removes it with all below it and nothing
\* else; the only error it lets through is the one that is not ENOENT, and
\* then build is rejected with that error, createDirs has not run, the
\* registry is empty and the filesystem is as it was.
C14_RemoveDirIfExists ==
    /\ [][proc.pc = "removeDirIfExists" =>
            \/ /\ proc'.pc = "createDirs"
               /\ ~BuildFailed'
               /\ InTarget(disk') = {}
               /\ \A p \in DOMAIN disk.files \ InTarget(disk) :
                     p \in DOMAIN disk'.files /\ disk'.files[p] = disk.files[p]
               /\ disk'.dirs = disk.dirs \ InTarget(disk)
            \/ /\ proc'.pc = "rejected"
               /\ proc'.error = "EACCES"
               /\ disk' = disk
               /\ maps' = maps]_vars
    /\ []((BuildFailed /\ proc.done = <<"build">>) =>
            /\ disk = InitialDisk
            /\ size(maps["assets"]) = 0
            /\ ~sw["assets"].done)

\* C14, its case: the output tree of a previous build has been removed, the
\* folder beside it is kept, and build is about to create the directories.
C14_Witness ==
    /\ proc.pc = "createDirs"
    /\ proc.stale
    /\ InTarget(disk) = {}
    /\ "/t2/keep.js" \in DOMAIN disk.files

\* the source root and the output directory of theme t, as paths
ThemeSrcRoot(t) == cssSrcDir \o "themes/" \o t \o "/"
ThemeOutRel(t) == "themes/" \o t \o "/"

\* the logical path of the asset url names, for a url inside the root of t
AssetKeyOf(t, url) == ThemeOutRel(t) \o SubSeq(url, Len(ThemeSrcRoot(t)) + 1, Len(url))

RECURSIVE RewrittenCss(_, _, _)
\* theme.css of t with every url replaced by ref[url]
RewrittenCss(urls, ref, css) ==
    IF urls = <<>> THEN css
    ELSE RewrittenCss(Tail(urls), ref, css \o "," \o ref[Head(urls)])

\* C15: when theme.css of a theme references a path that is not inside the
\* source root of that theme, buildCssBundles fails build and writes no
\* bundle.css for the theme (the error is the one of the rewriter when the
\* first reference is such a path); when every reference is inside the root
\* and registered, bundle.css holds for each reference a path that, taken
\* from the directory of bundle.css, is the hashed path the registry has
\* for the asset and names the file written for it.
C15_UrlRewriter ==
    [][(proc.pc = "buildCssBundles" /\ proc'.error # "EIO") =>
        \A t \in ThemesOf(proc) :
          LET urls == proc.urls
              idx == 1..Len(urls)
              inside(i) == startsWith(urls[i], ThemeSrcRoot(t))
              bundle == ThemeOutRel(t) \o "bundle.css"
          IN  /\ (\E i \in idx : ~inside(i)) =>
                    /\ proc'.pc = "rejected"
                    /\ ~has(maps'["assets"], bundle)
                    /\ ~inside(1) => proc'.error = "resource is out of theme directory"
              /\ (\A i \in idx : inside(i) /\ has(maps["assets"], AssetKeyOf(t, urls[i]))) =>
                    /\ proc'.pc = "buildManifest"
                    /\ has(maps'["assets"], bundle)
                    /\ \E ref \in [{urls[i] : i \in idx} ->
                                    {SubSeq(f, Len(TargetDir \o ThemeOutRel(t)) + 1, Len(f)) :
                                       f \in DOMAIN disk.files}] :
                         /\ \A u \in DOMAIN ref :
                              /\ ThemeOutRel(t) \o ref[u]
                                   = resolve(maps["assets"], AssetKeyOf(t, u)).value
                              /\ join(dirname(join(TargetDir, bundle)), ref[u])
                                   \in DOMAIN disk'.files
                         /\ disk'.files[join(TargetDir,
                                             resolve(maps'["assets"], bundle).value)]
                              = RewrittenCss(urls, ref, "t")]_vars

\* C15, its case: the bundle of theme e has been written with the reference
\* to the icon in a folder of the theme replaced by its hashed path.
C15_Witness ==
    /\ proc.pc = "buildManifest"
    /\ proc.urls = <<"/c/themes/e/icons/icon.svg">>
    /\ has(maps["assets"], "themes/e/bundle.css")
    /\ disk.files[join(TargetDir, resolve(maps["assets"], "themes/e/bundle.css").value)]
         = "t,icons/icon-40.svg"

RECURSIVE DirKeys(_, _)
\* the paths, relative to the folder, of the directories at any depth of it
DirKeys(dirEnts, prefix) ==
    UNION {IF dirEnts[i].type = "dir"
           THEN {prefix \o dirEnts[i].name}
                  \cup DirKeys(dirEnts[i].entries, prefix \o dirEnts[i].name \o "/")
           ELSE {} : i \in 1..Len(dirEnts)}

RECURSIVE ContentAt(_, _, _)
\* the content of the file or symbolic link at a relative path of a folder
ContentAt(dirEnts, prefix, relPath) ==
    LET hit == {i \in 1..Len(dirEnts) :
                  \/ dirEnts[i].type # "dir" /\ prefix \o dirEnts[i].name = relPath
                  \/ dirEnts[i].type = "dir"
                       /\ startsWith(relPath, prefix \o dirEnts[i].name \o "/")}
        i == CHOOSE j \in hit : TRUE
    IN  IF dirEnts[i].type = "dir"
        THEN ContentAt(dirEnts[i].entries, prefix \o dirEnts[i].name \o "/", relPath)
        ELSE dirEnts[i].content

\* C16: copyFolder with the filter of copyThemeAssets, called on the folder
\* of a theme: when it returns, every directory of the folder at any depth
\* has its mirror below dstRoot, also a directory whose path fails the
\* filter; the keys of the returned registry are the paths, relative to
\* dstRoot, of the regular files and symbolic links that pass the filter,
\* each resolving to a written copy of its content; nothing else is written,
\* so no file failing the filter is copied. Without a filter (lib/olm) the
\* keys are all the files. After copyThemeAssets the registry of build has
\* those keys of the theme below themes/<theme>/.
C16_CopyFolderFiltersFilesOnly ==
    /\ (proc.pc = "copyThemeAssets" /\ proc.themes # <<>>) =>
         LET dstRoot == join(TargetDir, "themes/" \o proc.themes[1])
             srcRoot == join(cssSrcDir, "themes/" \o proc.themes[1])
             r == copyFolder(proc.themeFolder, srcRoot, dstRoot, "notCss",
                             AssetMap(dstRoot), disk)
             keys == mapKeys(r.map.assets)
             written(k) == join(dstRoot, resolve(r.map, k).value)
         IN  ~r.threw =>
               /\ \A d \in DirKeys(proc.themeFolder, "") : join(dstRoot, d) \in r.fs.dirs
               /\ keys = FileKeys(proc.themeFolder, "", TRUE)
               /\ \A k \in keys :
                    /\ written(k) \in DOMAIN r.fs.files
                    /\ r.fs.files[written(k)] = ContentAt(proc.themeFolder, "", k)
               /\ DOMAIN r.fs.files \ DOMAIN disk.files = {written(k) : k \in keys}
               /\ \A f \in DOMAIN r.fs.files \ DOMAIN disk.files : ~endsWith(f, ".css")
    /\ proc.pc = "copyOlm" =>
         LET r == copyFolder(proc.olm, olmSrcDir, TargetDir, "none",
                             AssetMap(TargetDir), disk)
         IN  ~r.threw =>
               mapKeys(r.map.assets) = FileKeys(proc.olm, "", FALSE)
    /\ (proc.pc = "buildCssBundles" /\ proc.themes # <<>>) =>
         {k \in mapKeys(maps["assets"].assets) : startsWith(k, "themes/")}
           = FileKeys(proc.themeFolder, "themes/" \o proc.themes[1] \o "/", TRUE)

\* C16, its case: the folder of theme e with a directory d.css has been
\* copied: the svg and the symbolic link below d.css are registered and
\* written, n.css and theme.css are not.
C16_Witness ==
    /\ proc.pc = "buildCssBundles"
    /\ proc.themes = <<"e">>
    /\ has(maps["assets"], "themes/e/d.css/n.svg")
    /\ has(maps["assets"], "themes/e/d.css/deep/l.svg")
    /\ ~has(maps["assets"], "themes/e/d.css/n.css")
    /\ "/t/themes/e/d.css/deep" \in disk.dirs
    /\ "/t/themes/e/d.css/n-40.svg" \in DOMAIN disk.files

\* the number of places of text where sub occurs
Count(text, sub) ==
    Cardinality({j \in 1..(Len(text) - Len(sub) + 1) :
                   SubSeq(text, j, j + Len(sub) - 1) = sub})

\* the text of the index.html that is on disk
IndexHtml == disk.files[join(pathResolve(TargetDir), "index.html")]

\* C17: in a build with modernOnly the registry never has hydrogen-legacy.js
\* or worker.js, and the index.html written has the one module script tag,
\* with null for the worker path, and no nomodule tag; in a build without
\* modernOnly both are registered when buildHtml starts, and the index.html
\* written has the module script tag and two nomodule tags, the first with
\* the hashed path of hydrogen-legacy.js, and the hashed path of worker.js
\* for the worker path.
C17_LegacyTags ==
    /\ proc.modernOnly =>
         /\ ~has(maps["assets"], "hydrogen-legacy.js")
         /\ ~has(maps["assets"], "worker.js")
         /\ OnDisk("index.html") =>
              /\ Count(IndexHtml, "<script module ") = 1
              /\ Count(IndexHtml, "<script module "
                                     \o resolve(maps["assets"], "hydrogen.js").value
                                     \o " null,") = 1
              /\ Count(IndexHtml, "nomodule") = 0
    /\ ~proc.modernOnly =>
         /\ proc.pc = "buildHtml" =>
              /\ has(maps["assets"], "hydrogen-legacy.js")
              /\ has(maps["assets"], "worker.js")
         /\ OnDisk("index.html") =>
              /\ Count(IndexHtml, "<script module ") = 1
              /\ Count(IndexHtml, "nomodule") = 2
              /\ Count(IndexHtml, "<script nomodule "
                                     \o resolve(maps["assets"], "hydrogen-legacy.js").value
                                     \o "><script nomodule "
                                     \o resolve(maps["assets"], "worker.js").value
                                     \o ",") = 1
              /\ Count(IndexHtml, "null") = 0

\* C17, its case: a build with legacy support has written index.html.
C17_Witness ==
    /\ ~proc.modernOnly
    /\ proc.pc = "exited"
    /\ OnDisk("index.html")
    /\ Count(IndexHtml, "<script nomodule hydrogen-legacy-40.js>") = 1

\* a build with modernOnly has written index.html
C17_WitnessModern ==
    /\ proc.modernOnly
    /\ proc.pc = "exited"
    /\ OnDisk("index.html")
    /\ Count(IndexHtml, " null,") = 1

-----------------------------------------------------------------------------
(* One registry under calls that meet in one output path: a logical path  *)
(* that has the form of a hashed path, and the same file named relatively  *)
(* and absolutely.                                                         *)

\* resource paths handed to the methods: a file, a file named like the
\* hashed path of the first with the content x, the first by its absolute path
InjPaths == {"a.js", "a-39.js", "/t/a.js"}

InjInit ==
    /\ maps = [id \in MapIds |->
                 IF id = "assets" THEN AssetMap(TargetDir) ELSE AssetMap("/t/d/")]
    /\ disk = [files |-> EmptyFn, dirs |-> HarnessDirs]
    /\ hist = [id \in MapIds |-> EmptyFn]
    /\ ret = Ret("none", "assets", "", FALSE, "", "", FALSE, maps)
    /\ nOps = [id \in MapIds |-> 0]
    /\ sw = [id \in MapIds |-> NoSw]
    /\ proc = NoProc

InjWrite ==
    \E id \in MapIds, p \in InjPaths, c \in Contents : OpsLeft /\ write(id, p, c)

InjWriteUnhashed ==
    \E id \in MapIds, p \in InjPaths, c \in Contents :
        OpsLeft /\ writeUnhashed(id, p, c)

InjNext ==
    \/ InjWrite
    \/ InjWriteUnhashed
    \/ RegAddSubMap

SpecInj == InjInit /\ [][InjNext]_vars

\* the file an entry of the AssetMap self names
OutputFile(self, entry) == join(self.targetDir, entry[2])

\* C20: in every registry, two entries with distinct logical paths have
\* distinct output paths.
C20_ResolveInjective ==
    \A id \in MapIds :
      \A e1 \in Entries(maps[id]), e2 \in Entries(maps[id]) :
        e1[1] # e2[1] => e1[2] # e2[2]

\* in every registry, two entries with distinct logical paths name distinct
\* output files
C20_NoSharedOutputFile ==
    \A id \in MapIds :
      \A e1 \in Entries(maps[id]), e2 \in Entries(maps[id]) :
        e1[1] # e2[1] => OutputFile(maps[id], e1) # OutputFile(maps[id], e2)

\* the hashed path write gives the logical path key for this content
HashedPathOf(key, content) ==
    LET ext == extname(key)
        stem == SubSeq(key, 1, Len(key) - Len(ext))
    IN  stem \o "-" \o contentHash(content) \o ext

\* the step is a call of write on the registry id that returned, for a
\* logical path that an earlier call of write had registered and written
IsRewrite(id) ==
    /\ nOps' # nOps
    /\ ret'.op = "write" /\ ret'.id = id /\ ~ret'.threw
    /\ \E k \in DOMAIN hist[id] :
         /\ hist[id][k].by = "write"
         /\ has(maps[id], k)
         /\ toRelPath(maps[id], ret'.arg).relPath = k

\* what a second write of a logical path does to the mapping: the path
\* resolves to the hashed path of the content now written, the registry has
\* as many entries as before, and the file of the first write stays on disk
RewriteOfMapping(id) ==
    LET k == toRelPath(maps[id], ret'.arg).relPath
        old == mapGet(maps[id].assets, k).value
        new == ret'.value
        c2 == disk'.files[join(maps[id].targetDir, new)]
    IN  /\ resolve(maps'[id], ret'.arg).value = new
        /\ new = HashedPathOf(k, c2)
        /\ size(maps'[id]) = size(maps[id])
        /\ join(maps[id].targetDir, old) \in DOMAIN disk'.files
        /\ new = old => maps' = maps

\* C18: a second write of a logical path with another content makes the
\* path resolve to the hashed path of the new content and leaves the size of
\* the registry as it was; the file of the first write is still on disk and
\* no entry of the registry names it; a second write with the same content
\* leaves the registry and the files as they were.
C18_RewriteReplaces ==
    [][\A id \in MapIds : IsRewrite(id) =>
          LET k == toRelPath(maps[id], ret'.arg).relPath
              old == mapGet(maps[id].assets, k).value
              oldFile == join(maps[id].targetDir, old)
          IN  /\ RewriteOfMapping(id)
              /\ ret'.value # old =>
                   /\ disk'.files[oldFile] = disk.files[oldFile]
                   /\ \A e \in Entries(maps'[id]) : OutputFile(maps'[id], e) # oldFile
              /\ ret'.value = old => disk' = disk]_vars

\* a second write of a logical path replaces its mapping, whatever other
\* entries name the file of the first write
C18_RewriteReplacesMapping ==
    [][\A id \in MapIds : IsRewrite(id) => RewriteOfMapping(id)]_vars

-----------------------------------------------------------------------------
(* The cache lists of a build, checked under SpecBuild *)

\* how often path occurs in a list of paths
TimesIn(list, path) == Cardinality({i \in 1..Len(list) : list[i] = path})

\* C19: once buildServiceWorker has classified the registry of a build, the
\* list of unhashed pre-cached assets holds index.html exactly once and
\* sw.js is in none of the three lists; the registry it classified had
\* neither index.html nor sw.js registered; a completed build has classified
\* its registry, and its sw.js on disk names index.html once and sw.js not
\* at all.
C19_IndexHtmlSeededOnce ==
    /\ sw["assets"].done =>
         /\ TimesIn(sw["assets"].unhashedPreCachedAssets, "index.html") = 1
         /\ TimesIn(sw["assets"].unhashedPreCachedAssets, "sw.js") = 0
         /\ TimesIn(sw["assets"].hashedPreCachedAssets, "sw.js") = 0
         /\ TimesIn(sw["assets"].hashedCachedOnRequestAssets, "sw.js") = 0
         /\ ~mapHas(sw["assets"].entries, "index.html")
         /\ ~mapHas(sw["assets"].entries, "sw.js")
    /\ (BuildSucceeded /\ proc.pc = "exited") =>
         /\ sw["assets"].done
         /\ has(maps["assets"], "index.html")
         /\ has(maps["assets"], "sw.js")
         /\ Count(disk.files[join(pathResolve(TargetDir), "sw.js")], "\"index.html\"") = 1
         /\ Count(disk.files[join(pathResolve(TargetDir), "sw.js")], "sw.js") = 0

\* C19, its case: a build with legacy support and a theme has completed.
C19_Witness ==
    /\ BuildSucceeded
    /\ proc.pc = "exited"
    /\ ~proc.modernOnly
    /\ proc.themes = <<"e">>
    /\ sw["assets"].unhashedPreCachedAssets = <<"index.html">>
    /\ Len(sw["assets"].hashedPreCachedAssets) >= 4
    /\ Len(sw["assets"].hashedCachedOnRequestAssets) >= 1

====
